---------------------------- MODULE Spec2Model ----------------------------
(***************************************************************************)
(* Model of the personal-finance chatbot in src/app.py: the SQLite ledger  *)
(* (add / edit / delete / summary / list), the chat handler that routes a  *)
(* classified message to the ledger or to the local language model, the    *)
(* manual entry form, the edit/delete form and the insights button.        *)
(*                                                                         *)
(* Texts are sequences of one-character strings so that the Python string  *)
(* operations (lower, split, strip, replace, isdigit, float) are computed  *)
(* character by character.  Amounts are fixed-point numbers with           *)
(* FracDigits decimal places.  Similarity scores are hundredths.           *)
(***************************************************************************)
EXTENDS Integers, Sequences, FiniteSets, TLC

VARIABLES
    ledger,     \* the transactions table: id -> row
    seq,        \* sqlite_sequence entry of the table: largest id ever assigned
    history,    \* ids in the order INSERT assigned them (deleted ones included)
    today,      \* datetime.date.today()
    last_call,  \* the Ledger Store statement executed by the last handler
    display,    \* what the last handler wrote to the page (st.success, ...)
    calls,      \* the collaborator invocations made by the last handler
    status      \* how the last handler ended: "ok", or the exception it raised

vars == << ledger, seq, history, today, last_call, display, calls, status >>

-----------------------------------------------------------------------------
(* Bounds of the model *)

MaxId == 2          \* at most this many INSERTs in a behaviour
MaxDay == 2         \* the calendar runs over days 1..MaxDay
FracDigits == 1     \* decimal places kept by the fixed-point amounts

(* Program constants *)

ThresholdPct == 60  \* "score > 0.6", in hundredths

Scale == 10 ^ FracDigits

-----------------------------------------------------------------------------
(* Texts *)

MsgEarned ==
    << "I", " ", "e", "a", "r", "n", "e", "d", " ", "5", "0", "0", "0" >>
MsgForFood ==
    << "B", "o", "u", "g", "h", "t", " ", "g", "r", "o", "c", "e", "r", "i", "e", "s", " ", "f", "o", "r", " ", "F", "o", "o", "d" >>
MsgForRent ==
    << "P", "a", "i", "d", " ", "1", ".", "5", " ", "f", "o", "r", " ", "R", "e", "n", "t", " ", "3", "0" >>
MsgPaidToday ==
    << "I", " ", "g", "o", "t", " ", "p", "a", "i", "d", " ", "t", "o", "d", "a", "y" >>
MsgGibberish ==
    << "a", "s", "d", "k", "j", " ", "q", "w", "o", "e", "i", "r", "u" >>
MsgTrailingFor ==
    << "P", "a", "i", "d", " ", "2", "0", "0", " ", "f", "o", "r" >>
MsgBefore ==
    << "P", "a", "i", "d", " ", "3", "0", " ", "b", "e", "f", "o", "r", "e" >>
MsgSuperscript ==
    << "P", "a", "i", "d", " ", "sup2", " ", "5" >>
MsgBlank ==
    << " ", " " >>
General ==
    << "G", "e", "n", "e", "r", "a", "l" >>
Food ==
    << "F", "o", "o", "d" >>
EmptyText ==
    << >>

\* what the user may type into the chat box ("sup2" is the one character
\* U+00B2, superscript two)
Messages ==
    { MsgEarned, MsgForFood, MsgForRent, MsgPaidToday,
      MsgGibberish, MsgTrailingFor, MsgBefore, MsgSuperscript, MsgBlank }

-----------------------------------------------------------------------------
(* Python string operations *)

UpperLetters ==
    << "A", "B", "C", "D", "E", "F", "G", "H", "I", "J", "K", "L", "M",
       "N", "O", "P", "Q", "R", "S", "T", "U", "V", "W", "X", "Y", "Z" >>
LowerLetters ==
    << "a", "b", "c", "d", "e", "f", "g", "h", "i", "j", "k", "l", "m",
       "n", "o", "p", "q", "r", "s", "t", "u", "v", "w", "x", "y", "z" >>
DigitChars ==
    << "0", "1", "2", "3", "4", "5", "6", "7", "8", "9" >>
Whitespace ==
    { " ", "\t", "\n" }

\* str.lower() on one character
lower_char(c) ==
    IF \E i \in 1..Len(UpperLetters) : UpperLetters[i] = c
    THEN LowerLetters[CHOOSE i \in 1..Len(UpperLetters) : UpperLetters[i] = c]
    ELSE c

\* str.lower()
lower(s) ==
    [i \in 1..Len(s) |-> lower_char(s[i])]

\* str.lstrip()
RECURSIVE lstrip(_)
lstrip(s) ==
    IF s # << >> /\ Head(s) \in Whitespace THEN lstrip(Tail(s)) ELSE s

\* str.rstrip()
RECURSIVE rstrip(_)
rstrip(s) ==
    IF s # << >> /\ s[Len(s)] \in Whitespace
    THEN rstrip(SubSeq(s, 1, Len(s) - 1))
    ELSE s

\* str.strip()
strip(s) ==
    rstrip(lstrip(s))

\* str.split(): the maximal runs of non-whitespace characters, in order
RECURSIVE split_from(_, _, _)
split_from(s, cur, acc) ==
    IF s = << >>
    THEN IF cur = << >> THEN acc ELSE Append(acc, cur)
    ELSE IF Head(s) \in Whitespace
         THEN split_from(Tail(s), << >>,
                         IF cur = << >> THEN acc ELSE Append(acc, cur))
         ELSE split_from(Tail(s), Append(cur, Head(s)), acc)

split(s) ==
    split_from(s, << >>, << >>)

\* s.startswith(sep)
startswith(s, sep) ==
    /\ Len(s) >= Len(sep)
    /\ SubSeq(s, 1, Len(sep)) = sep

\* sep in s
RECURSIVE contains(_, _)
contains(s, sep) ==
    IF Len(s) < Len(sep) THEN FALSE
    ELSE startswith(s, sep) \/ contains(Tail(s), sep)

\* s.split(sep): the pieces between the occurrences of sep, scanned left to
\* right without overlap
RECURSIVE split_sep_from(_, _, _, _)
split_sep_from(s, sep, cur, acc) ==
    IF s = << >> THEN Append(acc, cur)
    ELSE IF startswith(s, sep)
         THEN split_sep_from(SubSeq(s, Len(sep) + 1, Len(s)), sep, << >>,
                             Append(acc, cur))
         ELSE split_sep_from(Tail(s), sep, Append(cur, Head(s)), acc)

split_sep(s, sep) ==
    split_sep_from(s, sep, << >>, << >>)

\* s.replace(old, "", 1) for a one-character old: drop its first occurrence
RECURSIVE replace_first(_, _)
replace_first(s, old) ==
    IF s = << >> THEN << >>
    ELSE IF Head(s) = old THEN Tail(s)
         ELSE << Head(s) >> \o replace_first(Tail(s), old)

\* the decimal value of an ASCII digit
DigitValue(c) ==
    (CHOOSE i \in 1..Len(DigitChars) : DigitChars[i] = c) - 1

IsDecimalDigit(c) ==
    \E i \in 1..Len(DigitChars) : DigitChars[i] = c

\* str.isdigit(): non-empty and every character has the Unicode property
\* Digit; "sup2" stands for U+00B2, which is a Digit but not a Decimal
isdigit(s) ==
    /\ s # << >>
    /\ \A i \in 1..Len(s) : IsDecimalDigit(s[i]) \/ s[i] = "sup2"

\* int() of a string of ASCII digits ("" gives 0)
RECURSIVE digits_value(_)
digits_value(s) ==
    IF s = << >> THEN 0
    ELSE digits_value(SubSeq(s, 1, Len(s) - 1)) * 10 + DigitValue(s[Len(s)])

\* the first n characters of s, padded with "0" on the right
pad_right(s, n) ==
    [i \in 1..n |-> IF i <= Len(s) THEN s[i] ELSE "0"]

\* float(s) for a token s that passed the isdigit filter: ValueError when a
\* character is not a decimal digit, otherwise the value as a fixed-point
\* number (digits past FracDigits places are not representable here)
float(s) ==
    IF \E i \in 1..Len(s) : s[i] # "." /\ ~IsDecimalDigit(s[i])
    THEN [raised |-> TRUE, value |-> 0]
    ELSE LET parts == split_sep(s, << "." >>)
             whole == parts[1]
             frac  == IF Len(parts) > 1 THEN parts[2] ELSE << >>
         IN  [raised |-> FALSE,
              value  |-> digits_value(whole) * Scale
                         + digits_value(pad_right(frac, FracDigits))]

-----------------------------------------------------------------------------
(* The external language-model collaborator *)

DefaultSystem == "financial advisor"

\* how `ollama run` can end
Outcomes ==
    { "exit0", "nonzero", "timeout", "oserror" }

\* get_granite_answer with "except subprocess.CalledProcessError": a timeout
\* is not caught
get_granite_answer_narrow(prompt, system_message, outcome) ==
    [prompt |-> prompt,
     system |-> IF system_message = "None" THEN DefaultSystem
                ELSE system_message,
     outcome |-> outcome,
     raised |-> outcome = "timeout",
     returned |-> IF outcome = "exit0"
                  THEN [prefix |-> "", body |-> "stdout"]
                  ELSE IF outcome = "nonzero"
                       THEN [prefix |-> "X Ollama Error: ", body |-> "stderr"]
                       ELSE [prefix |-> "X Unexpected error: ",
                             body |-> outcome]]

\* get_granite_answer: one subprocess.run, and the string returned for each
\* way it can end; the string is its prefix and the text that follows
get_granite_answer(prompt, system_message, outcome) ==
    LET system == IF system_message = "None" THEN DefaultSystem
                  ELSE system_message
        returned ==
            IF outcome = "exit0"
            THEN [prefix |-> "", body |-> "stdout"]
            ELSE IF outcome = "nonzero"
                 THEN [prefix |-> "X Ollama Error: ", body |-> "stderr"]
                 ELSE [prefix |-> "X Unexpected error: ", body |-> outcome]
    IN  [prompt |-> prompt, system |-> system, outcome |-> outcome,
         raised |-> FALSE, returned |-> returned]

-----------------------------------------------------------------------------
(* Ledger Store *)

Types == { "Income", "Expense" }

Row(t_type, amount, category, description, date) ==
    [type |-> t_type, amount |-> amount, category |-> category,
     description |-> description, date |-> date]

\* a statement sent to SQLite: its kind, the row id it names (for INSERT the
\* one it was given) and the values bound to its placeholders
Statement(op, id, args) ==
    [op |-> op, id |-> id, args |-> args]

Max(S) ==
    CHOOSE x \in S : \A y \in S : y <= x

\* the rowid of INTEGER PRIMARY KEY without AUTOINCREMENT: one more than the
\* largest rowid now in the table
NewRowId_rowid(table, sequence) ==
    Max({0} \cup DOMAIN table) + 1

\* the rowid INSERT gives a new row of an AUTOINCREMENT table: one more than
\* the largest rowid the table has ever held
NewRowId(table, sequence) ==
    Max({sequence} \cup DOMAIN table) + 1

\* init_db on a fresh finance.db
init_db ==
    /\ ledger = << >>
    /\ seq = 0
    /\ history = << >>

\* add_transaction that does not pass its category on
add_transaction_general(t_type, amount, category, description) ==
    LET id == NewRowId(ledger, seq)
    IN  /\ ledger' = [i \in DOMAIN ledger \cup {id} |->
                        IF i = id
                        THEN Row(t_type, amount, General, description, today)
                        ELSE ledger[i]]
        /\ seq' = id
        /\ history' = Append(history, id)
        /\ last_call' = Statement("add", id,
                                  << t_type, amount, category, description >>)

add_transaction(t_type, amount, category, description) ==
    LET id == NewRowId(ledger, seq)
    IN  /\ ledger' = [i \in DOMAIN ledger \cup {id} |->
                        IF i = id
                        THEN Row(t_type, amount, category, description, today)
                        ELSE ledger[i]]
        /\ seq' = id
        /\ history' = Append(history, id)
        /\ last_call' = Statement("add", id,
                                  << t_type, amount, category, description >>)

\* edit_transaction that also sets date to today
edit_transaction_redate(t_id, t_type, amount, category, description) ==
    /\ ledger' = [i \in DOMAIN ledger |->
                    IF i = t_id
                    THEN Row(t_type, amount, category, description, today)
                    ELSE ledger[i]]
    /\ UNCHANGED << seq, history >>
    /\ last_call' = Statement("edit", t_id,
                              << t_type, amount, category, description >>)

edit_transaction(t_id, t_type, amount, category, description) ==
    /\ ledger' = [i \in DOMAIN ledger |->
                    IF i = t_id
                    THEN Row(t_type, amount, category, description,
                             ledger[i].date)
                    ELSE ledger[i]]
    /\ UNCHANGED << seq, history >>
    /\ last_call' = Statement("edit", t_id,
                              << t_type, amount, category, description >>)

\* delete_transaction whose DELETE has no WHERE clause
delete_transaction_all(t_id) ==
    /\ ledger' = << >>
    /\ UNCHANGED << seq, history >>
    /\ last_call' = Statement("delete", t_id, << >>)

delete_transaction(t_id) ==
    /\ ledger' = [i \in DOMAIN ledger \ {t_id} |-> ledger[i]]
    /\ UNCHANGED << seq, history >>
    /\ last_call' = Statement("delete", t_id, << >>)

\* no statement is executed against the table
no_transaction ==
    /\ UNCHANGED << ledger, seq, history >>
    /\ last_call' = Statement("none", 0, << >>)

\* SELECT * FROM transactions ORDER BY id DESC
RECURSIVE rows_desc(_, _)
rows_desc(table, ids) ==
    IF ids = {} THEN << >>
    ELSE LET id == Max(ids)
         IN  << << id, table[id].type, table[id].amount, table[id].category,
                   table[id].description, table[id].date >> >>
             \o rows_desc(table, ids \ {id})

get_transactions(table) ==
    rows_desc(table, DOMAIN table)

\* SELECT SUM(amount) ... WHERE type = t_type: NULL when no row matches
RECURSIVE sum_rows(_, _, _)
sum_rows(rows, t_type, acc) ==
    IF rows = << >> THEN acc
    ELSE sum_rows(Tail(rows), t_type,
                  IF Head(rows)[2] # t_type THEN acc
                  ELSE IF acc.null
                       THEN [null |-> FALSE, value |-> Head(rows)[3]]
                       ELSE [null |-> FALSE,
                             value |-> acc.value + Head(rows)[3]])

select_sum(table, t_type) ==
    sum_rows(get_transactions(table), t_type, [null |-> TRUE, value |-> 0])

\* c.fetchone()[0] or 0
or_zero(x) ==
    IF x.null \/ x.value = 0 THEN 0 ELSE x.value

\* get_summary whose second query also reads type='Income'
get_summary_one_kind(table) ==
    LET income   == or_zero(select_sum(table, "Income"))
        expenses == or_zero(select_sum(table, "Income"))
    IN  << income, expenses, income - expenses >>

get_summary(table) ==
    LET income   == or_zero(select_sum(table, "Income"))
        expenses == or_zero(select_sum(table, "Expense"))
    IN  << income, expenses, income - expenses >>

-----------------------------------------------------------------------------
(* Transaction Extractor: the expressions of the chat handler *)

For == << "f", "o", "r" >>

\* [float(s) for s in user_input.split() if s.replace(".", "", 1).isdigit()]
amt(user_input) ==
    LET numeric == SelectSeq(split(user_input),
                             LAMBDA s : isdigit(replace_first(s, ".")))
        parsed  == [i \in 1..Len(numeric) |-> float(numeric[i])]
    IN  [raised |-> \E i \in 1..Len(parsed) : parsed[i].raised,
         value  |-> [i \in 1..Len(parsed) |-> parsed[i].value]]

\* cat = "General"
\* if "for" in user_input.lower():
\*     cat = user_input.lower().split("for")[-1].strip().split()[0]
cat(user_input) ==
    IF contains(lower(user_input), For)
    THEN LET pieces == split_sep(lower(user_input), For)
             tokens == split(strip(pieces[Len(pieces)]))
         IN  IF tokens = << >>
             THEN [raised |-> TRUE, value |-> << >>]
             ELSE [raised |-> FALSE, value |-> tokens[1]]
    ELSE [raised |-> FALSE, value |-> General]

-----------------------------------------------------------------------------
(* Advice Generator *)

\* expense_categories: total per category, categories in the order the rows
\* (id descending) first mention them
RECURSIVE expense_categories(_, _)
expense_categories(rows, acc) ==
    IF rows = << >> THEN acc
    ELSE LET t == Head(rows)
         IN  expense_categories(Tail(rows),
                 IF t[2] # "Expense" THEN acc
                 ELSE IF \E i \in 1..Len(acc) : acc[i][1] = t[4]
                      THEN [i \in 1..Len(acc) |->
                              IF acc[i][1] = t[4]
                              THEN << acc[i][1], acc[i][2] + t[3] >>
                              ELSE acc[i]]
                      ELSE Append(acc, << t[4], t[3] >>))

\* sorted(items, key=lambda x: x[1], reverse=True): stable, largest first
RECURSIVE sorted_desc(_)
sorted_desc(items) ==
    IF items = << >> THEN << >>
    ELSE LET i == CHOOSE i \in 1..Len(items) :
                      /\ \A j \in 1..Len(items) : items[j][2] <= items[i][2]
                      /\ \A j \in 1..(i - 1) : items[j][2] < items[i][2]
         IN  << items[i] >>
             \o sorted_desc(SubSeq(items, 1, i - 1)
                            \o SubSeq(items, i + 1, Len(items)))

top_expenses(table) ==
    LET items == sorted_desc(expense_categories(get_transactions(table), << >>))
    IN  SubSeq(items, 1, IF Len(items) < 3 THEN Len(items) ELSE 3)

\* The prompt handed to the collaborator: the template and what it embeds
\* (the percentages of the templates are formatted from the same figures)
Prompt(template, text, figures, top) ==
    [template |-> template, text |-> text, figures |-> figures, top |-> top]

get_personalized_saving_tips(table, outcome) ==
    get_granite_answer(
        Prompt("saving tips", << >>, get_summary(table), << >>),
        "savings strategies advisor", outcome)

get_personalized_investment_tips(table, outcome) ==
    get_granite_answer(
        Prompt("investment tips", << >>, get_summary(table),
               top_expenses(table)),
        "investment advisor", outcome)

get_financial_health_analysis(table, outcome) ==
    get_granite_answer(
        Prompt("financial analysis", << >>, get_summary(table), << >>),
        "financial health analyst", outcome)

-----------------------------------------------------------------------------
(* Intent Classifier *)

intent_examples ==
    { "add income", "add expense", "show summary", "saving tips",
      "investment tips", "financial analysis" }

\* the cosine similarities classify_intent can return, in hundredths: at and
\* just above the threshold
Scores ==
    { 60, 61 }

\* classify_intent: (best_intent, score); the embedding model is not
\* modelled, so any intent may come with any score
classify_intent ==
    intent_examples \X Scores

\* whether the handler runs ollama for this message
RunsOllama(user_input, intent, score) ==
    /\ strip(user_input) # << >>
    /\ \/ score <= ThresholdPct
       \/ intent \in { "saving tips", "investment tips", "financial analysis" }

-----------------------------------------------------------------------------
(* Handlers *)

Shown(widget, text, arg) ==
    [widget |-> widget, text |-> text, arg |-> arg]

\* the handler wrote what, called whom, and ended how
Page(shown, invoked, ended) ==
    /\ display' = shown
    /\ calls' = invoked
    /\ status' = ended

\* an exception left the handler: Streamlit shows it, nothing else happens
Crash(exception) ==
    /\ no_transaction
    /\ Page(<< Shown("exception", exception, << >>) >>, << >>, exception)

\* one advice request or fallback: the answer is written to the page
Advice(heading, answer) ==
    /\ no_transaction
    /\ IF answer.raised
       THEN Page(<< >>, << answer >>, "TimeoutExpired")
       ELSE Page(heading \o << Shown("write", "answer", answer.returned) >>,
                 << answer >>, "ok")

AddIncomeBranch(user_input) ==
    LET a == amt(user_input)
    IN  IF a.raised THEN Crash("ValueError")
        ELSE IF a.value # << >>
             THEN /\ seq < MaxId
                  /\ add_transaction("Income", a.value[1], General, user_input)
                  /\ Page(<< Shown("success", "Added income",
                                   << a.value[1] >>) >>, << >>, "ok")
             ELSE /\ no_transaction
                  /\ Page(<< >>, << >>, "ok")

AddExpenseBranch(user_input) ==
    LET a == amt(user_input)
        c == cat(user_input)
    IN  IF a.raised THEN Crash("ValueError")
        ELSE IF c.raised THEN Crash("IndexError")
        ELSE IF a.value # << >>
             THEN /\ seq < MaxId
                  /\ add_transaction("Expense", a.value[1], c.value,
                                     user_input)
                  /\ Page(<< Shown("error", "Added expense",
                                   << c.value, a.value[1] >>) >>, << >>, "ok")
             ELSE /\ no_transaction
                  /\ Page(<< >>, << >>, "ok")

ShowSummaryBranch ==
    /\ no_transaction
    /\ Page(<< Shown("info", "summary", get_summary(ledger)) >>, << >>, "ok")

\* if st.button("Submit Chat"): ...; classify_intent returned (intent, score)
\* and ollama, if it is run, ends with outcome
SubmitChat(user_input, intent, score, outcome) ==
    /\ UNCHANGED today
    /\ IF strip(user_input) = << >>
       THEN no_transaction /\ Page(<< >>, << >>, "ok")
       ELSE IF score > ThresholdPct
       THEN CASE intent = "add income" -> AddIncomeBranch(user_input)
              [] intent = "add expense" -> AddExpenseBranch(user_input)
              [] intent = "show summary" -> ShowSummaryBranch
              [] intent = "saving tips" ->
                    Advice(<< Shown("success", "saving tips", << >>) >>,
                           get_personalized_saving_tips(ledger, outcome))
              [] intent = "investment tips" ->
                    Advice(<< Shown("success", "investment advice", << >>) >>,
                           get_personalized_investment_tips(ledger, outcome))
              [] intent = "financial analysis" ->
                    Advice(<< Shown("success", "health analysis", << >>) >>,
                           get_financial_health_analysis(ledger, outcome))
       ELSE Advice(<< >>,
                   get_granite_answer(Prompt("raw", user_input, << >>, << >>),
                                      "None", outcome))

\* what the manual entry form lets the user submit: a type of the select
\* box, an amount >= 0.0 (min_value), two free texts
ManualInputs ==
    { << "Income", 100 * Scale, EmptyText, EmptyText >>,
      << "Expense", 0, Food, Food >>,
      << "Expense", 100 * Scale, EmptyText, EmptyText >> }

ManualEntry(etype, amount, category, description) ==
    /\ UNCHANGED today
    /\ seq < MaxId
    /\ add_transaction(etype, amount,
                       IF category = EmptyText THEN General ELSE category,
                       description)
    /\ Page(<< Shown("success", "added", << etype, amount >>) >>, << >>, "ok")

\* the ids the select box of the records tab offers
SelectableIds ==
    { get_transactions(ledger)[i][1] :
          i \in 1..Len(get_transactions(ledger)) }

\* what the edit form lets the user submit: the amount field has no minimum
EditInputs ==
    { << "Income", -(50 * Scale), Food, EmptyText >>,
      << "Expense", 70 * Scale, General, Food >> }

\* if save: edit_transaction(t_id, new_type, new_amount, new_category, new_desc)
SaveChanges(t_id, new_type, new_amount, new_category, new_desc) ==
    /\ UNCHANGED today
    /\ edit_transaction(t_id, new_type, new_amount, new_category, new_desc)
    /\ Page(<< Shown("success", "Transaction updated", << >>) >>, << >>, "ok")

\* if delete: delete_transaction(t_id)
DeleteButton(t_id) ==
    /\ UNCHANGED today
    /\ delete_transaction(t_id)
    /\ Page(<< Shown("warning", "Transaction deleted", << >>) >>, << >>, "ok")

\* the insights button, offered when income > 0: three advice requests
RefreshInsights(o1, o2, o3) ==
    LET tips     == get_personalized_saving_tips(ledger, o1)
        advice   == get_personalized_investment_tips(ledger, o2)
        analysis == get_financial_health_analysis(ledger, o3)
    IN  /\ UNCHANGED today
        /\ get_summary(ledger)[1] > 0
        /\ no_transaction
        /\ IF tips.raised
           THEN Page(<< >>, << tips >>, "TimeoutExpired")
           ELSE IF advice.raised
           THEN Page(<< >>, << tips, advice >>, "TimeoutExpired")
           ELSE IF analysis.raised
           THEN Page(<< >>, << tips, advice, analysis >>, "TimeoutExpired")
           ELSE Page(<< Shown("write", "tips", tips.returned),
                        Shown("write", "advice", advice.returned),
                        Shown("write", "analysis", analysis.returned) >>,
                     << tips, advice, analysis >>, "ok")

\* midnight passes
NextDay ==
    /\ today < MaxDay
    /\ today' = today + 1
    /\ UNCHANGED << ledger, seq, history, last_call, display, calls, status >>

-----------------------------------------------------------------------------
(* Specifications *)

Init ==
    /\ init_db
    /\ today = 1
    /\ last_call = Statement("none", 0, << >>)
    /\ display = << >>
    /\ calls = << >>
    /\ status = "ok"

\* the chat box, for the given messages and classifier results
ChatOver(messages, results) ==
    \E user_input \in messages, r \in results :
        \E outcome \in IF RunsOllama(user_input, r[1], r[2])
                        THEN Outcomes ELSE { "exit0" } :
            SubmitChat(user_input, r[1], r[2], outcome)

Chat ==
    ChatOver(Messages, classify_intent)

\* the messages that reach the Ledger Store
ChatLedger ==
    ChatOver({ MsgEarned, MsgForRent },
             { << "add income", 61 >>, << "add expense", 61 >>,
               << "show summary", 61 >> })

Manual ==
    \E m \in ManualInputs : ManualEntry(m[1], m[2], m[3], m[4])

\* how the three ollama runs of the insights button can end
InsightOutcomes ==
    { << o, o, o >> : o \in Outcomes }
    \cup { << "exit0", "timeout", "nonzero" >>,
           << "nonzero", "exit0", "oserror" >> }

Insights ==
    \E o \in InsightOutcomes : RefreshInsights(o[1], o[2], o[3])

\* the form handlers on a row of the page just rendered
Save ==
    \E t_id \in SelectableIds, e \in EditInputs :
        SaveChanges(t_id, e[1], e[2], e[3], e[4])

Delete ==
    \E t_id \in SelectableIds : DeleteButton(t_id)

\* the form handlers when another session sharing finance.db may have
\* removed the row since the page was rendered: any id can reach the store
SaveAny ==
    \E t_id \in 1..MaxId, e \in EditInputs :
        SaveChanges(t_id, e[1], e[2], e[3], e[4])

DeleteAny ==
    \E t_id \in 1..MaxId : DeleteButton(t_id)

\* the Ledger Store under every operation that reaches it
Next ==
    \/ ChatLedger
    \/ Manual
    \/ SaveAny
    \/ DeleteAny
    \/ NextDay

Spec == Init /\ [][Next]_vars

\* one session only: the entry points of the page that write the ledger
NextUI ==
    \/ ChatLedger
    \/ Manual
    \/ Save
    \/ Delete
    \/ NextDay

SpecUI == Init /\ [][NextUI]_vars

\* the Conversation Router and the Advice Generator
NextChat ==
    \/ Chat
    \/ Insights

SpecChat == Init /\ [][NextChat]_vars

-----------------------------------------------------------------------------
(* Properties *)

Range(f) ==
    { f[i] : i \in DOMAIN f }

Ids(rows) ==
    { rows[i][1] : i \in 1..Len(rows) }

\* the sum of the amounts of the transactions of one kind
RECURSIVE SumAmounts(_, _, _)
SumAmounts(table, ids, kind) ==
    IF ids = {} THEN 0
    ELSE LET i == CHOOSE i \in ids : TRUE
         IN  (IF table[i].type = kind THEN table[i].amount ELSE 0)
             + SumAmounts(table, ids \ {i}, kind)

\* the last handler sent this kind of statement in this step
Executed(op) ==
    /\ last_call'.op = op
    /\ last_call' # last_call

\* C1: after add(kind, amount, category, description) with kind Income or
\* Expense and amount >= 0, list_all holds exactly one transaction that was
\* not there before, with those four fields and today's date; every earlier
\* transaction is unchanged; summary's total of that kind has grown by
\* amount and the other kind's total is unchanged.
C1_AddOneRow ==
    [][ (/\ Executed("add")
         /\ last_call'.args[1] \in Types
         /\ last_call'.args[2] >= 0)
        => LET a      == last_call'.args
               before == get_transactions(ledger)
               after  == get_transactions(ledger')
               fresh  == { i \in 1..Len(after) : after[i] \notin Range(before) }
           IN  /\ Cardinality(fresh) = 1
               /\ Len(after) = Len(before) + 1
               /\ \A i \in fresh :
                     /\ after[i][1] \notin Ids(before)
                     /\ SubSeq(after[i], 2, 6)
                            = << a[1], a[2], a[3], a[4], today >>
               /\ Range(before) \subseteq Range(after)
               /\ get_summary(ledger')[1]
                     = get_summary(ledger)[1]
                       + (IF a[1] = "Income" THEN a[2] ELSE 0)
               /\ get_summary(ledger')[2]
                     = get_summary(ledger)[2]
                       + (IF a[1] = "Expense" THEN a[2] ELSE 0) ]_vars

\* a category typed into the manual form was stored on top of an earlier row
C1_Witness ==
    /\ last_call.op = "add"
    /\ last_call.args[3] = Food
    /\ Cardinality(DOMAIN ledger) = 2
    /\ ledger[last_call.id].category = Food
    /\ display # << >>

\* C2: edit on a present identifier replaces kind, amount, category and
\* description of that transaction and leaves its identifier, its date, every
\* other transaction and the record count unchanged; edit on an absent
\* identifier leaves the ledger unchanged; neither surfaces an error.
C2_EditFrame ==
    [][ Executed("edit")
        => LET id == last_call'.id
               a  == last_call'.args
           IN  /\ DOMAIN ledger' = DOMAIN ledger
               /\ Len(get_transactions(ledger'))
                     = Len(get_transactions(ledger))
               /\ \A j \in DOMAIN ledger \ {id} : ledger'[j] = ledger[j]
               /\ id \in DOMAIN ledger
                     => ledger'[id] = Row(a[1], a[2], a[3], a[4],
                                          ledger[id].date)
               /\ id \notin DOMAIN ledger => ledger' = ledger
               /\ status' = "ok"
               /\ \A i \in 1..Len(display') :
                     display'[i].widget # "exception" ]_vars

\* a row recorded on an earlier day was edited while another row exists
C2_Witness ==
    /\ last_call.op = "edit"
    /\ last_call.id \in DOMAIN ledger
    /\ ledger[last_call.id].date < today
    /\ ledger[last_call.id].amount = last_call.args[2]
    /\ Cardinality(DOMAIN ledger) = 2

\* C3: delete on a present identifier removes that one transaction and leaves
\* every other transaction unchanged; delete on an absent identifier leaves
\* the ledger unchanged; neither surfaces an error.
C3_DeleteFrame ==
    [][ Executed("delete")
        => LET id == last_call'.id
           IN  /\ DOMAIN ledger' = DOMAIN ledger \ {id}
               /\ \A j \in DOMAIN ledger' : ledger'[j] = ledger[j]
               /\ id \notin DOMAIN ledger => ledger' = ledger
               /\ id \in DOMAIN ledger
                     => Len(get_transactions(ledger'))
                          = Len(get_transactions(ledger)) - 1
               /\ status' = "ok"
               /\ \A i \in 1..Len(display') :
                     display'[i].widget # "exception" ]_vars

\* an identifier that was assigned has been deleted and another row is left
C3_Witness ==
    /\ last_call.op = "delete"
    /\ last_call.id \in Range(history)
    /\ last_call.id \notin DOMAIN ledger
    /\ DOMAIN ledger # {}

\* C4: summary is (I, E, I - E), I the sum of the amounts of the Income
\* transactions in the ledger and E that of the Expense transactions, each 0
\* when the ledger has no transaction of the kind.
C4_Summary ==
    LET I == SumAmounts(ledger, DOMAIN ledger, "Income")
        E == SumAmounts(ledger, DOMAIN ledger, "Expense")
    IN  /\ get_summary(ledger) = << I, E, I - E >>
        /\ (\A i \in DOMAIN ledger : ledger[i].type # "Income")
              => get_summary(ledger)[1] = 0
        /\ (\A i \in DOMAIN ledger : ledger[i].type # "Expense")
              => get_summary(ledger)[2] = 0
        /\ ledger = << >> => get_summary(ledger) = << 0, 0, 0 >>

\* after an add, an edit and a delete, expenses outweigh income
C4_Witness ==
    /\ Len(history) = 2
    /\ Cardinality(DOMAIN ledger) = 1
    /\ last_call.op = "edit"
    /\ get_summary(ledger)[2] > 0
    /\ get_summary(ledger)[3] < 0

\* C5: every stored transaction has amount >= 0 and kind Income or Expense.
C5_ValidRows ==
    \A i \in DOMAIN ledger :
        /\ ledger[i].amount >= 0
        /\ ledger[i].type \in Types

\* C6: identifiers are assigned in strictly increasing order, deleted ones
\* included, so none is reused, and list_all (identifier descending) lists
\* the transactions most recently added first.
C6_MonotonicIds ==
    LET rows == get_transactions(ledger)
        Added(id) == CHOOSE k \in 1..Len(history) : history[k] = id
    IN  /\ \A i, j \in 1..Len(history) : i < j => history[i] < history[j]
        /\ Ids(rows) = DOMAIN ledger
        /\ DOMAIN ledger \subseteq Range(history)
        /\ \A i, j \in 1..Len(rows) :
              i < j => /\ rows[i][1] > rows[j][1]
                       /\ Added(rows[i][1]) > Added(rows[j][1])

\* a transaction was added after the only earlier one had been deleted
C6_Witness ==
    /\ last_call.op = "add"
    /\ last_call.id = 2
    /\ DOMAIN ledger = {2}

\* the chat handler ran on this message with this classifier result
Submitted(user_input, intent, score) ==
    /\ strip(user_input) # << >>
    /\ \E outcome \in Outcomes : SubmitChat(user_input, intent, score, outcome)

\* the tokens of the message that pass for numbers
NumericTokens(user_input) ==
    SelectSeq(split(user_input), LAMBDA s : isdigit(replace_first(s, ".")))

\* C7: a chat message changes the ledger only when the score is > 0.6, the
\* intent is add income or add expense and an amount is extracted; it then
\* adds exactly one transaction, Income (category General) or Expense, with
\* the first numeric token as amount and the raw message as description.
\* On every other path the ledger is unchanged, and with score <= 0.6 the raw
\* message goes to the collaborator with the default system instruction.
C7_ChatLedgerEffect ==
    [][ \A user_input \in Messages, r \in classify_intent :
          Submitted(user_input, r[1], r[2])
          => LET intent == r[1]
                 score  == r[2]
                 a      == amt(user_input)
             IN  IF /\ score > ThresholdPct
                    /\ intent \in { "add income", "add expense" }
                    /\ ~a.raised
                    /\ a.value # << >>
                 THEN /\ DOMAIN ledger \subseteq DOMAIN ledger'
                      /\ Cardinality(DOMAIN ledger' \ DOMAIN ledger) = 1
                      /\ \A i \in DOMAIN ledger : ledger'[i] = ledger[i]
                      /\ \A i \in DOMAIN ledger' \ DOMAIN ledger :
                            /\ ledger'[i].type
                                  = (IF intent = "add income" THEN "Income"
                                     ELSE "Expense")
                            /\ ledger'[i].amount
                                  = float(NumericTokens(user_input)[1]).value
                            /\ ledger'[i].description = user_input
                            /\ intent = "add income"
                                  => ledger'[i].category = General
                 ELSE /\ ledger' = ledger
                      /\ score <= ThresholdPct
                            => /\ Len(calls') = 1
                               /\ calls'[1].prompt.template = "raw"
                               /\ calls'[1].prompt.text = user_input
                               /\ calls'[1].system = DefaultSystem ]_vars

\* C8: a message classified add income or add expense with score > 0.6 and
\* without a numeric token gets a "no amount detected" warning and changes
\* nothing in the ledger.
C8_NoAmountWarning ==
    [][ \A user_input \in Messages, score \in Scores :
          \A intent \in { "add income", "add expense" } :
            (/\ score > ThresholdPct
             /\ NumericTokens(user_input) = << >>
             /\ Submitted(user_input, intent, score))
            => /\ \E i \in 1..Len(display') : display'[i].widget = "warning"
               /\ ledger' = ledger ]_vars

\* C9: every call of the collaborator returns a string, the response on
\* success and a string marked as failure on non-zero exit, exception or
\* timeout; no exception leaves the call; no request is sent twice; a
\* handler that calls the collaborator leaves the ledger unchanged.
C9_CollaboratorBoundary ==
    [][ /\ \A i \in 1..Len(calls') :
             /\ ~calls'[i].raised
             /\ calls'[i].returned.prefix = "" <=> calls'[i].outcome = "exit0"
             /\ calls'[i].outcome = "exit0"
                   => calls'[i].returned.body = "stdout"
             /\ \A j \in 1..Len(calls') :
                   i # j => calls'[i].prompt # calls'[j].prompt
        /\ status' # "TimeoutExpired"
        /\ calls' # << >>
              => /\ ledger' = ledger
                 /\ seq' = seq
                 /\ display' # << >>
                 /\ display'[Len(display')].arg
                       = calls'[Len(calls')].returned ]_vars

\* the fallback timed out while the ledger held a transaction
C9_Witness ==
    /\ Len(calls) = 1
    /\ calls[1].outcome = "timeout"
    /\ calls[1].prompt.template = "raw"
    /\ calls[1].returned.prefix # ""
    /\ DOMAIN ledger # {}
    /\ status = "ok"

\* where "for" occurs in the lower-cased text
ForPositions(text) ==
    { p \in 1..(Len(text) - 2) : SubSeq(lower(text), p, p + 2) = For }

\* what follows the last "for", stripped
AfterLastFor(text) ==
    strip(SubSeq(lower(text), Max(ForPositions(text)) + 3, Len(text)))

\* C10: on the add expense branch category extraction yields a category for
\* every text (the first token after the last "for" of the lower-cased text,
\* General without "for") and the router ends without an error.
C10_CategoryForEveryText ==
    [][ \A user_input \in Messages, score \in Scores :
          (/\ score > ThresholdPct
           /\ ~amt(user_input).raised
           /\ Submitted(user_input, "add expense", score))
          => /\ status' = "ok"
             /\ ~cat(user_input).raised
             /\ ForPositions(user_input) = {}
                   => cat(user_input).value = General
             /\ ForPositions(user_input) # {}
                   => /\ split(AfterLastFor(user_input)) # << >>
                      /\ cat(user_input).value
                            = split(AfterLastFor(user_input))[1]
             /\ Executed("add")
                   => last_call'.args[3] = cat(user_input).value ]_vars

=============================================================================
